---- MODULE Spec2Model ----
(***************************************************************************)
(* Model of the chunking engine of kb-sync-agent (src/uploader.py):       *)
(* ArticleUploader._create_chunks and the helpers it calls, and of the    *)
(* sync run around it (src/main.py, src/delta.py, the upload functions of  *)
(* src/uploader.py, the hash and the files of src/scraper.py).             *)
(*                                                                         *)
(* Text.  A string is a sequence of items.  An item is a whitespace-free   *)
(* word or the paragraph separator "\n\n" (BR).  Single spaces and single  *)
(* newlines between words are not represented: str.split() and             *)
(* " ".join() in the source treat them alike.  A word carries              *)
(*   tok : the number of tokens of its body under the encoding,            *)
(*   end : TRUE iff the word ends in sentence punctuation [.!?]+,          *)
(*   mk  : the literal text of the word where the code looks at it: a      *)
(*         heading marker ("#", "##", ...), a special-token literal of the *)
(*         encoding ("<|endoftext|>"), the separator; "" otherwise,        *)
(*   pos : the line of the document the word was read from.  pos is a      *)
(*         provenance tag only; no operator that models code reads it.     *)
(* A line is a sequence of words, a blank line is the empty sequence, a    *)
(* document is a sequence of lines (markdown.split("\n")).                 *)
(***************************************************************************)
EXTENDS Integers, Sequences, FiniteSets, TLC

\* ---------------------------------------------------------------- constants
TARGET_TOKENS == 600
OVERLAP_TOKENS == 100
MIN_CHUNK_TOKENS == 200
MAX_CHUNK_TOKENS == 800

\* ------------------------------------------------------------------- bounds
MaxBlocks == 3
MaxCalls == 3
MaxRepeatBlocks == 1
MaxLines == 3
MaxChars == 5
MaxFaults == 1
MaxRuns == 2

VARIABLES
  thresholds,      \* module attributes TARGET/OVERLAP/MIN/MAX, read at call time
  pc,              \* "idle" | "loop" | "returned" | "raised"
  markdown,        \* argument: the document, as lines
  article_slug,    \* argument
  source_url,      \* argument
  sections,        \* local: list of sections
  section_idx,     \* local: position of the for loop over sections (1-based)
  chunks,          \* local: the list being built
  current_chunk,   \* local: the accumulation buffer (list of unit texts)
  current_tokens,  \* local: running token total of the buffer
  chunk_index,     \* local: index of the next chunk of the section
  result,          \* the list handed to the caller by return
  owner,           \* history: owner[k] = section_idx that emitted chunks[k]
  seeds,           \* history: the overlap re-seedings of the current call
  history,         \* history: the article_slug of every completed call
  ref              \* history: <<arguments, result>> of the first completed call

VARIABLES
  main_pc,           \* main(): "idle" | "scraped" | "detected" | "raised" |
                     \* "done" | "failed"
  runs,              \* number of runs of main() started so far
  index,             \* the file data/index.json: slug -> metadata
  articles_dir,      \* the files data/articles/<slug>.md: slug -> markdown
  scraped_articles,  \* main: slug -> metadata of the articles scraped in this run
  new_slugs,         \* main: lists returned by detect_changes
  updated_slugs,
  unchanged_slugs,
  articles_to_upload, \* main: the slugs of the dictionary, in its order
  upload_idx,        \* upload_articles: position of the loop (1-based)
  chunk_counts,      \* upload_articles: slug -> number of chunks uploaded
  vector_stores,     \* the remote service: the vector stores created so far,
                     \* each the set of the objects attached to it
  vector_store_id,   \* uploader.vector_store_id: 0 (None) or a position in
                     \* vector_stores
  prev,              \* history: the index file when the run started, and the
                     \* outcome, scraped_articles and lists of the run before
  exc,               \* the exception raised in the run, if any: type, message
  errors,            \* main: the list errors
  artifact,          \* the file artifacts/last_run.json: the run that wrote it
                     \* (0: no file) and its "errors"
  exit_code,         \* what main returned: 0 or 1, -1 while it has not returned
  faults             \* history: the runs so far that the environment failed (no
                     \* API key, scraping or the index file failing, an interrupt)

VARIABLES
  norm_pc,           \* _normalize_markdown called on its own: "idle" | "returned"
  norm_text,         \* argument: the text, as characters
  norm_result        \* the string returned

chunker == <<thresholds, pc, markdown, article_slug, source_url, sections,
             section_idx, chunks, current_chunk, current_tokens, chunk_index,
             result, owner, seeds, history, ref>>

sync == <<main_pc, runs, index, articles_dir, scraped_articles, new_slugs,
          updated_slugs, unchanged_slugs, articles_to_upload, upload_idx,
          chunk_counts, vector_stores, vector_store_id, prev>>

report == <<exc, errors, artifact, exit_code, faults>>

normalizer == <<norm_pc, norm_text, norm_result>>

vars == <<thresholds, pc, markdown, article_slug, source_url, sections,
          section_idx, chunks, current_chunk, current_tokens, chunk_index,
          result, owner, seeds, history, ref,
          main_pc, runs, index, articles_dir, scraped_articles, new_slugs,
          updated_slugs, unchanged_slugs, articles_to_upload, upload_idx,
          chunk_counts, vector_stores, vector_store_id, prev,
          exc, errors, artifact, exit_code, faults,
          norm_pc, norm_text, norm_result>>

\* ------------------------------------------------------------------- words
W(t) == [tok |-> t, end |-> FALSE, mk |-> "", pos |-> 0]
E(t) == [tok |-> t, end |-> TRUE, mk |-> "", pos |-> 0]
Mark(m) == [tok |-> 1, end |-> FALSE, mk |-> m, pos |-> 0]
BR == [tok |-> 1, end |-> FALSE, mk |-> "\n\n", pos |-> 0]
Special == [tok |-> 1, end |-> FALSE, mk |-> "<|endoftext|>", pos |-> 0]

IsBR(w) == w.mk = "\n\n"

\* text.split(): the whitespace-free words of a text
Words(text) == SelectSeq(text, LAMBDA w : ~IsBR(w))

\* _count_tokens: len(encoding.encode(text)).  The encoding is additive over
\* words; trailing sentence punctuation and the separator "\n\n" are one
\* token each, single spaces and newlines merge into the following word.
RECURSIVE CountTokens(_)
CountTokens(text) ==
  IF text = <<>> THEN 0
  ELSE Head(text).tok + (IF Head(text).end THEN 1 ELSE 0) + CountTokens(Tail(text))

\* encoding.encode(text) raises ValueError on a text that holds the literal
\* of a special token (tiktoken: disallowed_special = "all" by default);
\* _count_tokens (lines 31-33) has no handler.
Encodable(text) == \A i \in 1..Len(text) : text[i].mk # "<|endoftext|>"

\* "\n\n".join(units)
RECURSIVE Join(_)
Join(units) ==
  IF units = <<>> THEN <<>>
  ELSE IF Len(units) = 1 THEN units[1]
  ELSE units[1] \o <<BR>> \o Join(Tail(units))

IsHeadingAnyLevel(line) ==
  Len(line) >= 2 /\ line[1].mk \in {"#", "##", "###", "####"}

IsHeadingLevel2(line) == Len(line) >= 2 /\ line[1].mk = "##"

\* ------------------------------------------------------- _split_by_heading
\* re.match(r"^(##|###)\s+(.+)$", line)
IsHeading(line) == Len(line) >= 2 /\ line[1].mk \in {"##", "###"}

HasContent(lines) == \E i \in 1..Len(lines) : lines[i] # <<>>

RECURSIVE SplitLines(_, _, _)
SplitLines(lines, cur, out) ==
  IF lines = <<>>
  THEN IF HasContent(cur.content) THEN Append(out, cur) ELSE out
  ELSE LET line == Head(lines)
       IN IF IsHeading(line)
          THEN SplitLines(Tail(lines),
                          [heading |-> Tail(line),
                           heading_level |-> IF line[1].mk = "##" THEN 2 ELSE 3,
                           content |-> <<line>>],
                          IF HasContent(cur.content) THEN Append(out, cur) ELSE out)
          ELSE SplitLines(Tail(lines),
                          [cur EXCEPT !.content = Append(@, line)], out)

_split_by_heading(md) ==
  SplitLines(md, [heading |-> <<>>, heading_level |-> 0, content |-> <<>>], <<>>)

\* --------------------------------------------------- _split_into_paragraphs
RECURSIVE SplitParas(_, _, _)
SplitParas(lines, cur, out) ==
  IF lines = <<>>
  THEN IF cur # <<>> THEN Append(out, cur) ELSE out
  ELSE IF Head(lines) = <<>>
       THEN SplitParas(Tail(lines), <<>>, IF cur # <<>> THEN Append(out, cur) ELSE out)
       ELSE SplitParas(Tail(lines), cur \o Head(lines), out)

_split_into_paragraphs(content) == SplitParas(content, <<>>, <<>>)

\* ------------------------------------------ re.split(r'[.!?]+\s+', para)
\* A word that ends in punctuation and is followed by whitespace closes a
\* sentence; the punctuation and the whitespace are removed.  The last word
\* of the paragraph keeps its punctuation (the paragraph is stripped).
RECURSIVE SentSplit(_, _, _)
SentSplit(words, cur, out) ==
  IF words = <<>> THEN Append(out, cur)
  ELSE LET w == Head(words)
       IN IF w.end /\ Tail(words) # <<>>
          THEN SentSplit(Tail(words), <<>>,
                         Append(out, IF w.tok > 0
                                     THEN Append(cur, [w EXCEPT !.end = FALSE])
                                     ELSE cur))
          ELSE SentSplit(Tail(words), Append(cur, w), out)

Sentences(para) == SentSplit(para, <<>>, <<>>)

\* ------------------------------------------------------------ ChunkBuilder
\* A packer state: the locals of the loop of _create_chunks plus the history
\* of re-seedings (log).
\* cx = [heading, article_slug, source_url]: the values copied into chunks.

\* chunks.append({...}); chunk_index += 1                  (lines 111-120,
\* 129-138, 158-168)
EmitChunk(acc, cx) ==
  [acc EXCEPT
     !.chunks = Append(@, [text |-> Join(acc.current_chunk),
                           tokens |-> acc.current_tokens,
                           heading |-> cx.heading,
                           chunk_index |-> acc.chunk_index,
                           article_slug |-> cx.article_slug,
                           source_url |-> cx.source_url]),
     !.chunk_index = @ + 1]

\* overlap_words[-target_words:]; a slice from -0 is the whole list
LastWords(words, k) ==
  IF k = 0 THEN words ELSE SubSeq(words, Len(words) - k + 1, Len(words))

\* lines 142-147 and 172-176
TrimOverlap(overlap_text) ==
  LET overlap_tokens == CountTokens(overlap_text)
  IN IF overlap_tokens > thresholds.OVERLAP
     THEN LET overlap_words == Words(overlap_text)
              target_words == (thresholds.OVERLAP * Len(overlap_words)) \div overlap_tokens
          IN LastWords(overlap_words, target_words)
     ELSE overlap_text

\* line 141: the overlap source when a sentence unit triggers the flush
OverlapSourceSent(cc) ==
  IF Len(cc) >= 2 THEN Join(SubSeq(cc, Len(cc) - 1, Len(cc)))
  ELSE IF cc # <<>> THEN cc[Len(cc)] ELSE <<>>

OverlapSourceFirst(cc) == IF cc # <<>> THEN cc[1] ELSE <<>>

\* line 171: the overlap source when a paragraph triggers the flush
OverlapSourcePara(cc) ==
  IF cc # <<>> THEN Join(SubSeq(cc, Len(cc), Len(cc))) ELSE <<>>

\* lines 141-150 and 171-179: start the new buffer with overlap plus unit
Reseed(acc, flushed, source, unit, path, emitted) ==
  LET overlap_text == TrimOverlap(source)
      cc == IF overlap_text # <<>> THEN <<overlap_text, unit>> ELSE <<unit>>
  IN [acc EXCEPT
        !.current_chunk = cc,
        !.current_tokens = CountTokens(Join(cc)),
        !.log = Append(@, [path |-> path, buffer |-> flushed, source |-> source,
                           overlap |-> overlap_text, unit |-> unit,
                           emitted |-> emitted])]

\* lines 126-153: one sentence unit
PackSentence(acc, sent, cx) ==
  LET sent_tokens == CountTokens(sent)
  IN IF acc.current_tokens + sent_tokens > thresholds.TARGET /\ acc.current_chunk # <<>>
     THEN Reseed(EmitChunk(acc, cx), acc.current_chunk,
                 OverlapSourceSent(acc.current_chunk), sent, "sent", TRUE)
     ELSE [acc EXCEPT !.current_chunk = Append(@, sent),
                      !.current_tokens = @ + sent_tokens]

RECURSIVE PackSentences(_, _, _)
PackSentences(acc, sents, cx) ==
  IF sents = <<>> THEN acc
  ELSE PackSentences(PackSentence(acc, Head(sents), cx), Tail(sents), cx)

\* lines 109-122: the flush of the buffer before an oversized paragraph
FlushBeforeSplit(acc, cx) ==
  IF acc.current_chunk # <<>>
  THEN [EmitChunk(acc, cx) EXCEPT !.current_chunk = <<>>, !.current_tokens = 0]
  ELSE acc

\* lines 156-179: the flush at a paragraph boundary
FlushAtParagraph(acc, para, cx) ==
  LET emitted == acc.current_tokens >= thresholds.MIN
      a1 == IF emitted THEN EmitChunk(acc, cx) ELSE acc
  IN Reseed(a1, acc.current_chunk, OverlapSourcePara(acc.current_chunk),
            para, "para", emitted)

\* lines 104-183: one paragraph
PackParagraph(acc, para, cx) ==
  LET para_tokens == CountTokens(para)
  IN IF para_tokens > thresholds.MAX
     THEN PackSentences(FlushBeforeSplit(acc, cx), Sentences(para), cx)
     ELSE IF acc.current_tokens + para_tokens > thresholds.TARGET
             /\ acc.current_chunk # <<>>
          THEN FlushAtParagraph(acc, para, cx)
          ELSE [acc EXCEPT !.current_chunk = Append(@, para),
                           !.current_tokens = @ + para_tokens]

RECURSIVE PackParagraphs(_, _, _)
PackParagraphs(acc, paras, cx) ==
  IF paras = <<>> THEN acc
  ELSE PackParagraphs(PackParagraph(acc, Head(paras), cx), Tail(paras), cx)

FinalFlushAlways(acc, cx) ==
  IF acc.current_chunk # <<>>
  THEN [EmitChunk(acc, cx) EXCEPT !.chunk_index = acc.chunk_index]
  ELSE acc

\* lines 185-195: save the remaining chunk
FinalFlush(acc, cx) ==
  IF acc.current_chunk # <<>> /\ acc.current_tokens >= thresholds.MIN
  THEN [EmitChunk(acc, cx) EXCEPT !.chunk_index = acc.chunk_index]
  ELSE acc

SectionStartKeepIndex(acc) ==
  [acc EXCEPT !.current_chunk = <<>>, !.current_tokens = 0]

SectionStartKeepBuffer(acc) ==
  [acc EXCEPT !.chunk_index = 0]

\* lines 100-102: the buffer, its total and the counter at a section start
SectionStart(acc) ==
  [acc EXCEPT !.current_chunk = <<>>, !.current_tokens = 0, !.chunk_index = 0]

\* lines 93-195: one iteration of the loop over sections
PackSection(acc, section, slug, url) ==
  LET cx == [heading |-> section.heading, article_slug |-> slug, source_url |-> url]
  IN FinalFlush(PackParagraphs(SectionStart(acc),
                               _split_into_paragraphs(section.content), cx), cx)

\* every text the loop hands to _count_tokens can be encoded
SectionEncodable(section) ==
  \A i \in 1..Len(section.content) : Encodable(section.content[i])

\* lines 86-91
SectionsOf(md) ==
  LET found == _split_by_heading(md)
  IN IF found = <<>>
     THEN << [heading |-> <<>>, heading_level |-> 0, content |-> md] >>
     ELSE found

NewChunkListKeep(acc) == [acc EXCEPT !.log = <<>>]

\* line 84
NewChunkList(acc) == [acc EXCEPT !.chunks = <<>>, !.log = <<>>]

\* ------------------------------------------------------------------ inputs
\* Documents are built from blocks separated by one blank line.  A block is
\* one paragraph: one or more lines.
Rep(w, n) == [i \in 1..n |-> w]

Blocks ==
  { << <<Mark("##"), W(3)>> >>,                          \* a heading line alone
    << <<Mark("###"), W(4)>>, Rep(W(50), 3) >>,          \* heading + 150 tokens
    << <<Mark("##"), W(3)>>, Rep(W(50), 6) >>,           \* heading + 300 tokens
    << <<W(40)>> >>,                                     \* 40 tokens, one word
    << Rep(W(50), 5) \o <<E(50)>> >>,                    \* 301 tokens, six words
    << Rep(W(250), 3) >>,                                \* 750 tokens, three words
    << Rep(W(50), 5) \o <<E(50)>>,                       \* 903 tokens, three
       Rep(W(50), 5) \o <<E(50)>>,                       \*   sentences
       Rep(W(50), 5) \o <<E(50)>> >>,
    << <<E(40), W(850)>> >> }                            \* a sentence above MAX

RECURSIVE Flatten(_)
Flatten(blocks) ==
  IF blocks = <<>> THEN <<>>
  ELSE IF Len(blocks) = 1 THEN blocks[1]
  ELSE blocks[1] \o << <<>> >> \o Flatten(Tail(blocks))

\* tag every word with the line it stands on
Place(lines) ==
  [i \in 1..Len(lines) |-> [j \in 1..Len(lines[i]) |-> [lines[i][j] EXCEPT !.pos = i]]]

BlockSeqs == UNION { [1..n -> Blocks] : n \in 0..MaxBlocks }

Docs == { Place(Flatten(bs)) : bs \in BlockSeqs }

AllArgs == [md : Docs, slug : {"a1"}, url : {"u1"}]

\* Documents given line by line: headings of levels 1 to 4, a marker without
\* text, blank lines, and a paragraph of 1.5 * MAX tokens in two sentences.
Lines ==
  { <<Mark("#"), W(3)>>,
    <<Mark("##"), W(3)>>,
    <<Mark("###"), W(4)>>,
    <<Mark("####"), W(3)>>,
    <<Mark("##")>>,
    <<>>,
    Rep(W(57), 6) \o <<E(57)>> \o Rep(W(100), 8) }

\* One-line documents: a special-token literal, and a paragraph over MAX that
\* starts with bare punctuation.
SpecialDocs ==
  { Place(<< <<W(5), Special>> >>), Place(<< <<E(0), W(850)>> >>) }

LineDocs ==
  { Place(ls) : ls \in UNION { [1..n -> Lines] : n \in 1..MaxLines } }
    \cup SpecialDocs

LineArgs == [md : LineDocs, slug : {"a1"}, url : {"u1"}]

\* the documents on which calls are repeated
RepeatDocs ==
  { Place(Flatten(bs)) : bs \in UNION { [1..n -> Blocks] : n \in 0..MaxRepeatBlocks } }

\* another article, chunked between two calls on the same arguments
OtherArgs ==
  [md |-> Place(<< <<Mark("##"), W(3)>>, Rep(W(50), 6), <<>>, Rep(W(250), 3) >>),
   slug |-> "a2", url |-> "u2"]

DefaultThresholds ==
  [TARGET |-> TARGET_TOKENS, OVERLAP |-> OVERLAP_TOKENS,
   MIN |-> MIN_CHUNK_TOKENS, MAX |-> MAX_CHUNK_TOKENS]

\* ----------------------------------------------------------------- actions
Locals == [chunks |-> chunks, current_chunk |-> current_chunk,
           current_tokens |-> current_tokens, chunk_index |-> chunk_index,
           log |-> seeds]

\* an empty dictionary
Empty == [s \in {} |-> 0]

\* no exception has been raised
NoException == [type |-> "", msg |-> ""]

\* the environment fails the run
Fault == faults < MaxFaults /\ faults' = faults + 1

\* main.py lines 24-31: the locals of main when a run starts, and
\* what the run remembers of the run before
StartRun ==
  /\ pc = "idle"
  /\ norm_pc = "idle"
  /\ thresholds = DefaultThresholds
  /\ main_pc \in {"idle", "done", "failed"}
  /\ runs < MaxRuns
  /\ runs' = runs + 1
  /\ new_slugs' = <<>> /\ updated_slugs' = <<>> /\ unchanged_slugs' = <<>>
  /\ articles_to_upload' = <<>> /\ upload_idx' = 0 /\ chunk_counts' = Empty
  /\ vector_store_id' = 0
  /\ errors' = <<>>
  /\ exit_code' = -1
  /\ prev' = [index |-> index, ok |-> main_pc = "done", scraped |-> scraped_articles,
              aborted |-> main_pc = "failed" /\ exc.type = "Exception",
              new_slugs |-> new_slugs, updated_slugs |-> updated_slugs]
  /\ UNCHANGED <<index, vector_stores, artifact>>
  /\ UNCHANGED chunker
  /\ UNCHANGED normalizer

\* before the first run: no index file, no article file, no vector store
SyncInit ==
  /\ main_pc = "idle" /\ runs = 0
  /\ index = Empty /\ articles_dir = Empty
  /\ scraped_articles = Empty
  /\ new_slugs = <<>> /\ updated_slugs = <<>> /\ unchanged_slugs = <<>>
  /\ articles_to_upload = <<>> /\ upload_idx = 0 /\ chunk_counts = Empty
  /\ vector_stores = <<>> /\ vector_store_id = 0
  /\ prev = [index |-> Empty, ok |-> FALSE, scraped |-> Empty,
             aborted |-> FALSE, new_slugs |-> <<>>, updated_slugs |-> <<>>]
  /\ exc = NoException /\ errors = <<>>
  /\ artifact = [run |-> 0, errors |-> <<>>]
  /\ exit_code = -1
  /\ faults = 0

\* _normalize_markdown has not been called
NormInit == norm_pc = "idle" /\ norm_text = <<>> /\ norm_result = <<>>

Init ==
  /\ SyncInit
  /\ NormInit
  /\ thresholds = DefaultThresholds
  /\ pc = "idle"
  /\ markdown = <<>> /\ article_slug = "" /\ source_url = ""
  /\ sections = <<>> /\ section_idx = 0
  /\ chunks = <<>> /\ current_chunk = <<>> /\ current_tokens = 0 /\ chunk_index = 0
  /\ result = <<>> /\ owner = <<>> /\ seeds = <<>>
  /\ history = <<>> /\ ref = <<>>

\* lines 74-91: entry of _create_chunks
Call(args) ==
  /\ runs = 0
  /\ norm_pc = "idle"
  /\ pc \in {"idle", "returned"}
  /\ Len(history) < MaxCalls
  /\ pc' = "loop"
  /\ markdown' = args.md /\ article_slug' = args.slug /\ source_url' = args.url
  /\ sections' = SectionsOf(args.md)
  /\ section_idx' = 1
  /\ LET a == NewChunkList(Locals)
     IN chunks' = a.chunks /\ seeds' = a.log
  /\ owner' = <<>>
  /\ UNCHANGED <<thresholds, current_chunk, current_tokens, chunk_index,
                 result, history, ref>>
  /\ UNCHANGED sync
  /\ UNCHANGED report
  /\ UNCHANGED normalizer

\* lines 93-195: one iteration of "for section_idx, section in enumerate(sections)"
ProcessSection ==
  /\ pc = "loop"
  /\ section_idx <= Len(sections)
  /\ SectionEncodable(sections[section_idx])
  /\ LET a == PackSection(Locals, sections[section_idx], article_slug, source_url)
     IN /\ chunks' = a.chunks
        /\ current_chunk' = a.current_chunk
        /\ current_tokens' = a.current_tokens
        /\ chunk_index' = a.chunk_index
        /\ seeds' = a.log
        /\ owner' = owner \o [k \in 1..(Len(a.chunks) - Len(chunks)) |-> section_idx]
  /\ section_idx' = section_idx + 1
  /\ UNCHANGED <<thresholds, pc, markdown, article_slug, source_url, sections,
                 result, history, ref>>
  /\ UNCHANGED sync
  /\ UNCHANGED report
  /\ UNCHANGED normalizer

\* line 197: return chunks
Return ==
  /\ pc = "loop"
  /\ section_idx > Len(sections)
  /\ pc' = "returned"
  /\ result' = chunks
  /\ history' = Append(history, article_slug)
  /\ ref' = IF ref = <<>>
            THEN << [md |-> markdown, slug |-> article_slug, url |-> source_url],
                    chunks >>
            ELSE ref
  /\ UNCHANGED <<thresholds, markdown, article_slug, source_url, sections,
                 section_idx, chunks, current_chunk, current_tokens, chunk_index,
                 owner, seeds>>
  /\ UNCHANGED sync
  /\ UNCHANGED report
  /\ UNCHANGED normalizer

\* line 105 (and 127, 142, 150, 172, 179): _count_tokens raises inside the
\* loop; nothing in _create_chunks catches it and no list is returned
RaiseInSection ==
  /\ pc = "loop"
  /\ section_idx <= Len(sections)
  /\ ~SectionEncodable(sections[section_idx])
  /\ pc' = "raised"
  /\ UNCHANGED <<thresholds, markdown, article_slug, source_url, sections,
                 section_idx, chunks, current_chunk, current_tokens, chunk_index,
                 result, owner, seeds, history, ref>>
  /\ UNCHANGED sync
  /\ UNCHANGED report
  /\ UNCHANGED normalizer

\* the first call takes any document; later calls repeat the first call's
\* arguments or chunk the other article (after a document of RepeatDocs)
CallArgs ==
  IF norm_pc # "idle" \/ runs # 0 THEN {}
  ELSE IF pc = "idle" THEN AllArgs \cup LineArgs
  ELSE IF pc = "returned" /\ ref[1].md \in RepeatDocs THEN {ref[1], OtherArgs}
  ELSE {}

\* ------------------------------------------ the function as a whole
Fresh == [chunks |-> <<>>, current_chunk |-> <<>>, current_tokens |-> 0,
          chunk_index |-> 0, log |-> <<>>]

RECURSIVE RunSections(_, _, _, _)
RunSections(acc, secs, slug, url) ==
  IF secs = <<>> THEN acc
  ELSE RunSections(PackSection(acc, Head(secs), slug, url), Tail(secs), slug, url)

\* lines 74-197: the list _create_chunks returns when run from fresh locals
CreateChunks(md, slug, url) ==
  RunSections(NewChunkList(Fresh), SectionsOf(md), slug, url).chunks

\* ------------------------------------------------------------ the sync run
\* The site: the articles in the order in which the listing returns them, and
\* the markdown the scraper can produce for each (scraper.py lines 322-324:
\* it starts with a "#" title line).  The first article has a short and a
\* long version, the second a version that holds a special-token literal.
Slugs == <<"a1", "a2">>

UrlOf(slug) == IF slug = "a1" THEN "u1" ELSE "u2"

Title == <<Mark("#"), W(3)>>

Versions(slug) ==
  IF slug = "a1"
  THEN { Place(<<Title, <<>>, <<W(250)>>>>),
         Place(<<Title, <<>>, Rep(W(250), 3), <<>>, Rep(W(250), 3)>>) }
  ELSE { Place(<<Title, <<>>, <<W(300)>>>>),
         Place(<<Title, <<>>, <<W(300), Special>>>>) }

\* what one scrape can fetch: any subset of the articles (a fetch that fails
\* skips the article), each in one of its versions
Sites ==
  UNION { { f \in [S -> UNION { Versions(s) : s \in S }] :
              \A s \in S : f[s] \in Versions(s) } :
          S \in SUBSET { Slugs[i] : i \in 1..Len(Slugs) } }

\* the keys of a dictionary in insertion order, which is the order of Slugs
Keys(d) == SelectSeq(Slugs, LAMBDA s : s \in DOMAIN d)

\* dict.update
Update(d, e) ==
  [s \in DOMAIN d \cup DOMAIN e |-> IF s \in DOMAIN e THEN e[s] ELSE d[s]]

\* the characters "\n" and "\r" of a text; every other item of a text is a
\* word (a run of characters that are not white space)
LF == [tok |-> 0, end |-> FALSE, mk |-> "\n", pos |-> 0]
CR == [tok |-> 0, end |-> FALSE, mk |-> "\r", pos |-> 0]

\* the text of a document: its lines joined by "\n"
RECURSIVE Text(_)
Text(md) ==
  LET line(l) == [j \in 1..Len(l) |-> [l[j] EXCEPT !.pos = 0]]
  IN IF md = <<>> THEN <<>>
     ELSE IF Len(md) = 1 THEN line(md[1])
     ELSE line(md[1]) \o <<LF>> \o Text(Tail(md))

\* scraper.py line 87, re.sub(r'\n{3,}', '\n\n', text): a run of three or
\* more "\n" becomes "\n\n"
RECURSIVE CollapseBlank(_)
CollapseBlank(text) ==
  IF text = <<>> THEN text
  ELSE IF Len(text) >= 3 /\ text[1] = LF /\ text[2] = LF /\ text[3] = LF
       THEN CollapseBlank(Tail(text))
  ELSE <<text[1]>> \o CollapseBlank(Tail(text))

\* scraper.py line 89, text.replace('\r\n', '\n')
RECURSIVE ReplaceCRLF(_)
ReplaceCRLF(text) ==
  IF text = <<>> THEN text
  ELSE IF Len(text) >= 2 /\ text[1] = CR /\ text[2] = LF
       THEN <<LF>> \o ReplaceCRLF(SubSeq(text, 3, Len(text)))
  ELSE <<text[1]>> \o ReplaceCRLF(Tail(text))

\* scraper.py line 89, .replace('\r', '\n')
ReplaceCR(text) == [i \in 1..Len(text) |-> IF text[i] = CR THEN LF ELSE text[i]]

\* scraper.py line 91, text.strip()
RECURSIVE Strip(_)
Strip(text) ==
  IF text = <<>> THEN text
  ELSE IF Head(text) \in {LF, CR} THEN Strip(Tail(text))
  ELSE IF text[Len(text)] \in {LF, CR} THEN Strip(SubSeq(text, 1, Len(text) - 1))
  ELSE text

\* scraper.py lines 84-91, in the order of the code: the runs of "\n" are
\* collapsed first, the line endings are converted after that
_normalize_markdown(text) == Strip(ReplaceCR(ReplaceCRLF(CollapseBlank(text))))

\* scraper.py lines 93-96: the digest stands for the text it was computed
\* from (no collisions)
_compute_hash(content) == [sha256 |-> _normalize_markdown(content)]

\* scraper.py lines 335-341: the metadata of a scraped article (the fields
\* the run reads)
Metadata(slug, md) == [hash |-> _compute_hash(Text(md)), source_url |-> UrlOf(slug)]

detect_changes_by_presence(idx, scraped) ==
  LET IsNew(s) == s \notin DOMAIN idx \/ DOMAIN idx[s] = {}
      Known(s) == ~IsNew(s)
  IN [new_slugs |-> SelectSeq(Keys(scraped), IsNew),
      updated_slugs |-> <<>>,
      unchanged_slugs |-> SelectSeq(Keys(scraped), Known)]

\* delta.py lines 22-51
detect_changes(idx, scraped) ==
  LET IsNew(s) == s \notin DOMAIN idx \/ DOMAIN idx[s] = {}
      Changed(s) == ~IsNew(s) /\ idx[s].hash # scraped[s].hash
      Same(s) == ~IsNew(s) /\ idx[s].hash = scraped[s].hash
  IN [new_slugs |-> SelectSeq(Keys(scraped), IsNew),
      updated_slugs |-> SelectSeq(Keys(scraped), Changed),
      unchanged_slugs |-> SelectSeq(Keys(scraped), Same)]

\* delta.py lines 53-61: the keys of the dictionary returned, in its order
get_articles_to_upload(idx, scraped) ==
  LET d == detect_changes(idx, scraped)
  IN d.new_slugs \o d.updated_slugs

\* main.py lines 33-48: a run starts; scrape_articles writes the markdown
\* files and returns the metadata, and leaves the index file alone
Scrape ==
  /\ StartRun
  /\ \E site \in Sites :
       /\ articles_dir' = Update(articles_dir, site)
       /\ scraped_articles' = [s \in DOMAIN site |-> Metadata(s, site[s])]
  /\ main_pc' = "scraped"
  /\ exc' = NoException
  /\ UNCHANGED faults

\* main.py lines 33-38: OPENAI_API_KEY is not set; sys.exit(1) raises
\* SystemExit, which no handler of main catches: main does not return
NoApiKey ==
  /\ Fault
  /\ StartRun
  /\ main_pc' = "failed"
  /\ exc' = [type |-> "SystemExit", msg |-> "1"]
  /\ scraped_articles' = Empty
  /\ UNCHANGED articles_dir

\* main.py lines 46-47 with scraper.py lines 270-348: scraping raises (the
\* article list cannot be fetched, a file cannot be written); the articles
\* scraped before that have their files written, scraped_articles is never
\* assigned
ScrapeRaises ==
  /\ Fault
  /\ StartRun
  /\ \E site \in Sites : articles_dir' = Update(articles_dir, site)
  /\ main_pc' = "raised"
  /\ exc' = [type |-> "Exception", msg |-> "scrape"]
  /\ scraped_articles' = Empty

\* main.py lines 46-47 and 135-137: the user interrupts the run while it
\* scrapes; KeyboardInterrupt is raised in scrape_articles
InterruptScrape ==
  /\ Fault
  /\ StartRun
  /\ \E site \in Sites : articles_dir' = Update(articles_dir, site)
  /\ main_pc' = "raised"
  /\ exc' = [type |-> "KeyboardInterrupt", msg |-> ""]
  /\ scraped_articles' = Empty

\* main.py lines 53-66: DeltaDetector() loads the index file
Detect ==
  /\ main_pc = "scraped"
  /\ LET d == detect_changes(index, scraped_articles)
     IN /\ new_slugs' = d.new_slugs
        /\ updated_slugs' = d.updated_slugs
        /\ unchanged_slugs' = d.unchanged_slugs
  /\ articles_to_upload' = get_articles_to_upload(index, scraped_articles)
  /\ upload_idx' = 1
  /\ main_pc' = "detected"
  /\ UNCHANGED <<runs, index, articles_dir, scraped_articles, chunk_counts,
                 vector_stores, vector_store_id, prev>>
  /\ UNCHANGED report
  /\ UNCHANGED chunker
  /\ UNCHANGED normalizer

\* what an exception on its way to the handlers of main leaves alone
Propagates ==
  /\ main_pc' = "raised"
  /\ UNCHANGED <<runs, index, articles_dir, scraped_articles, new_slugs,
                 updated_slugs, unchanged_slugs, articles_to_upload, upload_idx,
                 chunk_counts, vector_stores, vector_store_id, prev>>
  /\ UNCHANGED <<errors, artifact, exit_code>>
  /\ UNCHANGED chunker
  /\ UNCHANGED normalizer

\* main.py line 55 with delta.py lines 11-20: DeltaDetector() cannot read the
\* index file
DetectRaises ==
  /\ main_pc = "scraped"
  /\ Fault
  /\ exc' = [type |-> "Exception", msg |-> "index"]
  /\ Propagates


\* uploader.py lines 270-296: the object a chunk becomes in a vector store;
\* its file name is "<article_slug>_chunk_<chunk_index>.md"
Object(chunk) ==
  [article_slug |-> chunk.article_slug, chunk_index |-> chunk.chunk_index,
   text |-> chunk.text]

\* every text of the document can be encoded
DocEncodable(md) == \A i \in 1..Len(md) : Encodable(md[i])

\* uploader.py lines 318-328 with upload_article (lines 239-307): one
\* iteration of "for slug, metadata in articles_to_upload.items()".  A missing
\* file skips the article.  main builds the uploader without a vector store
\* id, so the first article that has chunks creates a new vector store (lines
\* 224-237) and the later ones find it again (lines 210-219).  Each chunk is
\* uploaded on its own; a chunk whose upload fails is reported and skipped
\* (lines 304-305).  Nothing is ever removed from a vector store.
UploadArticle ==
  /\ main_pc = "detected"
  /\ upload_idx <= Len(articles_to_upload)
  /\ LET slug == articles_to_upload[upload_idx]
         cs == CreateChunks(articles_dir[slug], slug,
                            scraped_articles[slug].source_url)
         id == IF vector_store_id = 0 THEN Len(vector_stores) + 1
               ELSE vector_store_id
         stores == IF vector_store_id = 0 THEN Append(vector_stores, {})
                   ELSE vector_stores
     IN IF slug \notin DOMAIN articles_dir
        THEN UNCHANGED <<chunk_counts, vector_stores, vector_store_id>>
        ELSE /\ DocEncodable(articles_dir[slug])
             /\ IF cs = <<>>
                THEN /\ chunk_counts' = Update(chunk_counts, slug :> 0)
                     /\ UNCHANGED <<vector_stores, vector_store_id>>
                ELSE \E uploaded \in SUBSET (1..Len(cs)) :
                       /\ vector_store_id' = id
                       /\ vector_stores' =
                            [stores EXCEPT ![id] = @ \cup { Object(cs[k]) : k \in uploaded }]
                       /\ chunk_counts' =
                            Update(chunk_counts, slug :> Cardinality(uploaded))
  /\ upload_idx' = upload_idx + 1
  /\ UNCHANGED <<main_pc, runs, index, articles_dir, scraped_articles, new_slugs,
                 updated_slugs, unchanged_slugs, articles_to_upload, prev>>
  /\ UNCHANGED report
  /\ UNCHANGED chunker
  /\ UNCHANGED normalizer

\* upload_article raises: _count_tokens fails on the article, or the vector
\* store cannot be created (lines 231-234).  Nothing between there and main
\* catches it.
UploadRaises ==
  /\ main_pc = "detected"
  /\ upload_idx <= Len(articles_to_upload)
  /\ LET slug == articles_to_upload[upload_idx]
     IN /\ slug \in DOMAIN articles_dir
        /\ \/ /\ ~DocEncodable(articles_dir[slug])
              /\ exc' = [type |-> "Exception", msg |-> "special token"]
           \/ /\ vector_store_id = 0
              /\ CreateChunks(articles_dir[slug], slug,
                              scraped_articles[slug].source_url) # <<>>
              /\ exc' = [type |-> "Exception", msg |-> "vector store"]
  /\ Propagates
  /\ UNCHANGED faults

\* the handler below, were it to save the index as the end of the run does
HandleExceptionSavesIndex ==
  /\ main_pc = "raised"
  /\ exc.type = "Exception"
  /\ errors' = Append(errors, exc.msg)
  /\ artifact' = [run |-> runs, errors |-> Append(errors, exc.msg)]
  /\ index' = Update(index, scraped_articles)
  /\ exit_code' = 1
  /\ main_pc' = "failed"
  /\ UNCHANGED <<runs, articles_dir, scraped_articles, new_slugs,
                 updated_slugs, unchanged_slugs, articles_to_upload, upload_idx,
                 chunk_counts, vector_stores, vector_store_id, prev, exc, faults>>
  /\ UNCHANGED chunker
  /\ UNCHANGED normalizer

\* main.py lines 53-75 and 135-137: the user interrupts the run after
\* scraping, before or between the uploads of articles
Interrupt ==
  /\ main_pc \in {"scraped", "detected"}
  /\ Fault
  /\ exc' = [type |-> "KeyboardInterrupt", msg |-> ""]
  /\ Propagates

\* main.py lines 138-156: except Exception as e; str(e) is appended to
\* errors, the artifact is written with counts and errors, return 1.  The
\* index file is not written.
HandleException ==
  /\ main_pc = "raised"
  /\ exc.type = "Exception"
  /\ errors' = Append(errors, exc.msg)
  /\ artifact' = [run |-> runs, errors |-> Append(errors, exc.msg)]
  /\ exit_code' = 1
  /\ main_pc' = "failed"
  /\ UNCHANGED <<runs, index, articles_dir, scraped_articles, new_slugs,
                 updated_slugs, unchanged_slugs, articles_to_upload, upload_idx,
                 chunk_counts, vector_stores, vector_store_id, prev, exc, faults>>
  /\ UNCHANGED chunker
  /\ UNCHANGED normalizer

\* main.py lines 135-137: except KeyboardInterrupt; return 1, no artifact
HandleInterrupt ==
  /\ main_pc = "raised"
  /\ exc.type = "KeyboardInterrupt"
  /\ exit_code' = 1
  /\ main_pc' = "failed"
  /\ UNCHANGED <<runs, index, articles_dir, scraped_articles, new_slugs,
                 updated_slugs, unchanged_slugs, articles_to_upload, upload_idx,
                 chunk_counts, vector_stores, vector_store_id, prev, exc, faults>>
  /\ UNCHANGED <<errors, artifact>>
  /\ UNCHANGED chunker
  /\ UNCHANGED normalizer

UpdateIndexUpdatedOnly ==
  /\ main_pc = "detected"
  /\ upload_idx > Len(articles_to_upload)
  /\ index' = Update(index, [s \in { updated_slugs[i] : i \in 1..Len(updated_slugs) }
                               |-> scraped_articles[s]])
  /\ main_pc' = "done"
  /\ UNCHANGED <<runs, articles_dir, scraped_articles, new_slugs, updated_slugs,
                 unchanged_slugs, articles_to_upload, upload_idx, chunk_counts,
                 vector_stores, vector_store_id, prev>>
  /\ artifact' = [run |-> runs, errors |-> errors]
  /\ exit_code' = 0
  /\ UNCHANGED <<exc, errors, faults>>
  /\ UNCHANGED chunker
  /\ UNCHANGED normalizer

\* main.py lines 83-133: after the upload loop the index file is read again,
\* updated with every scraped article and written; the artifact is written
\* (lines 100-119); return 0
UpdateIndex ==
  /\ main_pc = "detected"
  /\ upload_idx > Len(articles_to_upload)
  /\ index' = Update(index, scraped_articles)
  /\ main_pc' = "done"
  /\ UNCHANGED <<runs, articles_dir, scraped_articles, new_slugs, updated_slugs,
                 unchanged_slugs, articles_to_upload, upload_idx, chunk_counts,
                 vector_stores, vector_store_id, prev>>
  /\ artifact' = [run |-> runs, errors |-> errors]
  /\ exit_code' = 0
  /\ UNCHANGED <<exc, errors, faults>>
  /\ UNCHANGED chunker
  /\ UNCHANGED normalizer

\* the texts _normalize_markdown is called with on its own: every text of at
\* most MaxChars characters made of a word, "\n" and "\r"
NormTexts == UNION { [1..n -> {W(1), LF, CR}] : n \in 0..MaxChars }

NormArgs ==
  IF pc = "idle" /\ main_pc = "idle" /\ runs = 0 /\ norm_pc = "idle"
  THEN NormTexts ELSE {}

\* scraper.py lines 84-91: a call of _normalize_markdown(text), as the test
\* test_normalize_markdown makes it
Normalize(text) ==
  /\ pc = "idle" /\ main_pc = "idle" /\ runs = 0
  /\ norm_pc = "idle"
  /\ norm_pc' = "returned"
  /\ norm_text' = text
  /\ norm_result' = _normalize_markdown(text)
  /\ UNCHANGED chunker
  /\ UNCHANGED sync
  /\ UNCHANGED report

\* --------------------------------------------------------- specifications
Next ==
  \/ \E args \in CallArgs : Call(args)
  \/ ProcessSection
  \/ RaiseInSection
  \/ Return
  \/ Scrape
  \/ NoApiKey
  \/ ScrapeRaises
  \/ DetectRaises
  \/ InterruptScrape
  \/ Interrupt
  \/ HandleException
  \/ HandleInterrupt
  \/ Detect
  \/ UploadArticle
  \/ UploadRaises
  \/ UpdateIndex
  \/ \E text \in NormArgs : Normalize(text)

Spec == Init /\ [][Next]_vars

\* The thresholds are module attributes that _create_chunks reads when it
\* runs (lines 108, 128, 143, 156, 159, 173, 186); InitCfg starts from any
\* binding of them in Configs, the shipped one included.
Configs ==
  { DefaultThresholds,
    [DefaultThresholds EXCEPT !.MIN = 700],        \* MIN > TARGET
    [DefaultThresholds EXCEPT !.TARGET = 900],     \* TARGET > MAX
    [DefaultThresholds EXCEPT !.OVERLAP = 600] }   \* OVERLAP >= TARGET

InitCfg ==
  /\ SyncInit
  /\ NormInit
  /\ thresholds \in Configs
  /\ pc = "idle"
  /\ markdown = <<>> /\ article_slug = "" /\ source_url = ""
  /\ sections = <<>> /\ section_idx = 0
  /\ chunks = <<>> /\ current_chunk = <<>> /\ current_tokens = 0 /\ chunk_index = 0
  /\ result = <<>> /\ owner = <<>> /\ seeds = <<>>
  /\ history = <<>> /\ ref = <<>>

SpecCfg == InitCfg /\ [][Next]_vars

\* ================================================================== claims
\* the units of a chunk text: the pieces between "\n\n" separators
RECURSIVE Pieces(_, _)
Pieces(text, cur) ==
  IF text = <<>> THEN {cur}
  ELSE IF IsBR(Head(text)) THEN {cur} \cup Pieces(Tail(text), <<>>)
  ELSE Pieces(Tail(text), Append(cur, Head(text)))

HasOversizedUnit(text) ==
  \E u \in Pieces(text, <<>>) : CountTokens(u) > MAX_CHUNK_TOKENS

\* C1: under the default thresholds every emitted chunk has tokens <= MAX,
\* unless it holds a unit that alone exceeds MAX (an oversized sentence).
C1_TokensAtMostMax ==
  thresholds = DefaultThresholds =>
    \A k \in 1..Len(chunks) :
      chunks[k].tokens <= MAX_CHUNK_TOKENS \/ HasOversizedUnit(chunks[k].text)

\* C2: no chunk with tokens < MIN is ever emitted, whichever flush emits it.
C2_TokensAtLeastMin ==
  thresholds = DefaultThresholds =>
    \A k \in 1..Len(chunks) : chunks[k].tokens >= MIN_CHUNK_TOKENS

\* C3: within the returned list the chunks of a section are numbered
\* 0, 1, 2, ... in emission order, without gap or repeat, and the numbering
\* restarts at 0 with the first chunk of every later section.
C3_ChunkIndexRuns ==
  /\ Len(owner) = Len(chunks)
  /\ \A k \in 1..Len(chunks) :
       /\ chunks[k].chunk_index = Cardinality({j \in 1..(k - 1) : owner[j] = owner[k]})
       /\ k > 1 => owner[k - 1] <= owner[k]
  /\ pc = "returned" => result = chunks

\* a returned list with two chunks of one section followed by the first
\* chunk of the next section
C3_Witness ==
  /\ pc = "returned"
  /\ \E k \in 3..Len(result) :
       /\ owner[k - 2] = owner[k - 1] /\ owner[k - 1] < owner[k]
       /\ result[k - 1].chunk_index = 1 /\ result[k].chunk_index = 0

\* a buffer dropped for being under MIN is followed by chunks 0 and 1
C3_WitnessDropped ==
  /\ pc = "returned"
  /\ \E i \in 1..Len(seeds) : ~seeds[i].emitted
  /\ \E k \in 1..Len(result) : result[k].chunk_index = 1

\* the heading line that opens the section line p of the document belongs
\* to (0: the content before the first level-2/level-3 heading)
SectionLine(p) ==
  LET hs == {i \in 1..p : IsHeading(markdown[i])}
  IN IF hs = {} THEN 0 ELSE CHOOSE i \in hs : \A j \in hs : j <= i

HeadingOfLine(h) == IF h = 0 THEN <<>> ELSE Tail(markdown[h])

\* C4: all words of a chunk come from one section of the document, and the
\* chunk's heading is the heading text of that section (empty before the
\* first heading).
C4_HeadingFidelity ==
  \A k \in 1..Len(chunks) :
    LET ws == Words(chunks[k].text)
    IN /\ chunks[k].heading = sections[owner[k]].heading
       /\ \A i \in 1..Len(ws) :
            /\ SectionLine(ws[i].pos) = SectionLine(ws[1].pos)
            /\ chunks[k].heading = HeadingOfLine(SectionLine(ws[i].pos))

\* chunks of the content before the first heading and of two headed
\* sections, in one returned list
C4_Witness ==
  /\ pc = "returned"
  /\ \E i, j, k \in 1..Len(result) :
       /\ result[i].heading = <<>>
       /\ result[j].heading # <<>> /\ result[k].heading # <<>>
       /\ result[j].heading # result[k].heading

ValidThresholds(t) ==
  t.MIN <= t.TARGET /\ t.TARGET <= t.MAX /\ t.OVERLAP < t.TARGET

ContainsLine(text, line) ==
  \E i \in 1..(Len(text) - Len(line) + 1) :
    SubSeq(text, i, i + Len(line) - 1) = line

\* C6: the first chunk of a section that starts with a level-2/level-3
\* heading contains the heading line in its text.
C6_FirstChunkHasHeadingLine ==
  thresholds = DefaultThresholds =>
    \A k \in 1..Len(chunks) :
      (chunks[k].chunk_index = 0 /\ sections[owner[k]].heading_level # 0)
        => ContainsLine(chunks[k].text, sections[owner[k]].content[1])

\* C7: when the overlap source has more than OVERLAP tokens, the overlap
\* carried into the new buffer is exactly the last
\* floor(OVERLAP * words / tokens) words of the source; no overlap when that
\* is 0.
C7_OverlapWordCount ==
  thresholds = DefaultThresholds =>
    \A i \in 1..Len(seeds) :
      LET src == seeds[i].source
          ws == Words(src)
          n == (OVERLAP_TOKENS * Len(ws)) \div CountTokens(src)
      IN CountTokens(src) > OVERLAP_TOKENS =>
           seeds[i].overlap = SubSeq(ws, Len(ws) - n + 1, Len(ws))

\* C8: the overlap source is the last two units of the flushed buffer joined
\* by a blank line when the buffer held at least two units, else its single
\* unit, for paragraph-triggered and sentence-triggered flushes alike.
C8_OverlapSourceLastTwo ==
  thresholds = DefaultThresholds =>
    \A i \in 1..Len(seeds) :
      LET b == seeds[i].buffer
      IN seeds[i].source = IF Len(b) >= 2
                           THEN b[Len(b) - 1] \o <<BR>> \o b[Len(b)]
                           ELSE b[1]

CurrentArgs == [md |-> markdown, slug |-> article_slug, url |-> source_url]

\* C9: a call with the arguments of the first completed call returns the
\* list the first call returned, whatever was chunked in between; it is also
\* the list computed from fresh locals.
C9_Deterministic ==
  (pc = "returned" /\ ref # <<>> /\ CurrentArgs = ref[1]) =>
    /\ result = ref[2]
    /\ thresholds = DefaultThresholds =>
         result = CreateChunks(markdown, article_slug, source_url)

\* the first call, a call on another article, then the first call's
\* arguments again, returning at least two chunks
C9_Witness ==
  /\ pc = "returned"
  /\ history = <<"a1", "a2", "a1">>
  /\ CurrentArgs = ref[1]
  /\ Len(result) >= 2

\* the lines a..b of the document removed
WithoutLines(md, a, b) ==
  Place(SubSeq(md, 1, a - 1) \o SubSeq(md, b + 1, Len(md)))

StripWord(w) == [w EXCEPT !.pos = 0]
StripText(text) == [i \in 1..Len(text) |-> StripWord(text[i])]
StripPos(cs) ==
  [k \in 1..Len(cs) |-> [cs[k] EXCEPT !.text = StripText(@), !.heading = StripText(@)]]

\* first and last line of section i of the current document
StartOf(i) ==
  IF sections[i].heading_level = 0 THEN 1 ELSE sections[i].content[1][1].pos
EndOf(i) ==
  IF i < Len(sections) THEN StartOf(i + 1) - 1 ELSE Len(markdown)

RECURSIVE SumTokens(_)
SumTokens(paras) ==
  IF paras = <<>> THEN 0 ELSE CountTokens(Head(paras)) + SumTokens(Tail(paras))

Undersized(i) ==
  SumTokens(_split_into_paragraphs(sections[i].content)) < MIN_CHUNK_TOKENS

\* C10: a section whose paragraphs sum to less than MIN tokens contributes no
\* chunk, and the returned list is the one returned for the document without
\* that section.
C10_UndersizedSection ==
  (pc = "returned" /\ thresholds = DefaultThresholds) =>
    \A i \in 1..Len(sections) :
      Undersized(i) =>
        /\ \A k \in 1..Len(result) : owner[k] # i
        /\ StripPos(result) =
             StripPos(CreateChunks(WithoutLines(markdown, StartOf(i), EndOf(i)),
                                   article_slug, source_url))

\* an undersized section between two sections that yield chunks
C10_Witness ==
  /\ pc = "returned"
  /\ Len(sections) = 3
  /\ Undersized(2)
  /\ \E j, k \in 1..Len(result) : owner[j] = 1 /\ owner[k] = 3

\* the indices of the chunks built from section i
ChunksOf(i) == { k \in 1..Len(chunks) : owner[k] = i }

\* section i is one paragraph of exactly 1.5 * MAX tokens in which no
\* sentence alone exceeds MAX
OneBigParagraph(i) ==
  LET paras == _split_into_paragraphs(sections[i].content)
  IN /\ Len(paras) = 1
     /\ 2 * CountTokens(paras[1]) = 3 * MAX_CHUNK_TOKENS
     /\ \A j \in 1..Len(Sentences(paras[1])) :
          CountTokens(Sentences(paras[1])[j]) <= MAX_CHUNK_TOKENS

\* C11: a section that is a single paragraph of 1.5 * MAX tokens, none of
\* whose sentences alone exceeds MAX, yields at least two chunks and none of
\* them exceeds MAX.
C11_BigParagraphSplit ==
  (pc = "returned" /\ thresholds = DefaultThresholds) =>
    \A i \in 1..Len(sections) :
      OneBigParagraph(i) =>
        /\ Cardinality(ChunksOf(i)) >= 2
        /\ \A k \in ChunksOf(i) : chunks[k].tokens <= MAX_CHUNK_TOKENS

\* C12: a failure of the token counter on some text never aborts a chunking
\* call: no call of _create_chunks ends by raising.
C12_CountFailureNeverAborts == pc # "raised"

\* a line made of "##" or "###", whitespace and heading text
Level23(line) == Len(line) >= 2 /\ line[1].mk \in {"##", "###"}

NoHeadingLines(md) == \A i \in 1..Len(md) : ~Level23(md[i])

NonBlank(md) == \E i \in 1..Len(md) : md[i] # <<>>

\* C13: a document without level-2/level-3 heading lines and with some
\* content is one section with heading "" that holds the whole document,
\* every chunk has heading "" and the chunk_index values are 0..n-1; an empty
\* or whitespace-only document raises nothing and yields no chunk.
C13_NoHeadingOneSection ==
  (pc # "idle" /\ NoHeadingLines(markdown)) =>
     /\ NonBlank(markdown) =>
          /\ Len(sections) = 1
          /\ sections[1].heading = <<>>
          /\ sections[1].content = markdown
     /\ \A k \in 1..Len(chunks) :
          chunks[k].heading = <<>> /\ chunks[k].chunk_index = k - 1
     /\ ~NonBlank(markdown) => (pc # "raised" /\ chunks = <<>>)
     /\ pc = "returned" => result = chunks

\* a returned call on a document whose only marker lines are of level 1 or 4
\* and that gave two chunks or more
C13_Witness ==
  /\ pc = "returned"
  /\ NoHeadingLines(markdown)
  /\ \E i \in 1..Len(markdown) :
       Len(markdown[i]) >= 2 /\ markdown[i][1].mk \in {"#", "####"}
  /\ Len(result) >= 2

\* a returned call on a document of blank lines only
C13_WitnessBlank ==
  /\ pc = "returned"
  /\ markdown # <<>>
  /\ ~NonBlank(markdown)
  /\ result = <<>>

\* the lines of the sections, in order
RECURSIVE AllContent(_)
AllContent(secs) ==
  IF secs = <<>> THEN <<>> ELSE Head(secs).content \o AllContent(Tail(secs))

\* the index of the first level-2/level-3 heading line, Len(md) + 1 if none
FirstHeading(md) ==
  IF NoHeadingLines(md) THEN Len(md) + 1
  ELSE CHOOSE i \in 1..Len(md) :
         Level23(md[i]) /\ \A j \in 1..(i - 1) : ~Level23(md[j])

\* C14: _split_by_heading opens a section at every "##"/"###" heading line
\* and at no other line; the sections come in document order, a headed
\* section starts with its own heading line, and the sections together hold
\* every line of the document once (blank lines before the first heading of a
\* document that has nothing else there are left out).
C14_SplitAtHeadingsOnly ==
  pc # "idle" =>
    LET secs == _split_by_heading(markdown)
        first == FirstHeading(markdown)
        preface == \E i \in 1..(first - 1) : markdown[i] # <<>>
        from == IF preface THEN 1 ELSE first
    IN /\ Len(secs) = Cardinality({ i \in 1..Len(markdown) : Level23(markdown[i]) })
                        + (IF preface THEN 1 ELSE 0)
       /\ AllContent(secs) = SubSeq(markdown, from, Len(markdown))
       /\ \A n \in 1..Len(secs) :
            LET c == secs[n].content
            IN /\ c # <<>>
               /\ \A j \in 2..Len(c) : ~Level23(c[j])
               /\ IF Level23(c[1])
                  THEN /\ secs[n].heading = Tail(c[1])
                       /\ secs[n].heading_level = (IF c[1][1].mk = "##" THEN 2 ELSE 3)
                  ELSE /\ n = 1
                       /\ secs[n].heading = <<>>
                       /\ secs[n].heading_level = 0

\* a document with a preface that holds a level-1 or level-4 marker line, then
\* one section of each level
C14_Witness ==
  /\ pc = "returned"
  /\ LET secs == _split_by_heading(markdown)
     IN /\ Len(secs) = 3
        /\ secs[1].heading_level = 0
        /\ secs[1].content[1][1].mk \in {"#", "####"}
        /\ {secs[2].heading_level, secs[3].heading_level} = {2, 3}

\* C17: every chunk carries exactly the six fields text, tokens, heading,
\* chunk_index, article_slug and source_url, and under the default thresholds
\* 0 < tokens <= 1000.
C17_FieldsAndTokenRange ==
  \A k \in 1..Len(chunks) :
    /\ DOMAIN chunks[k] = {"text", "tokens", "heading", "chunk_index",
                           "article_slug", "source_url"}
    /\ thresholds = DefaultThresholds =>
         (0 < chunks[k].tokens /\ chunks[k].tokens <= 1000)

IsSuffix(a, b) ==
  Len(a) <= Len(b) /\ SubSeq(b, Len(b) - Len(a) + 1, Len(b)) = a

\* the overlap of a re-seeding is made of the last words of the buffer that
\* was flushed just before it
FromFlushedBuffer(s) == IsSuffix(Words(s.overlap), Words(Join(s.buffer)))

\* C18 as stated: overlap text is taken only from a buffer that was emitted
\* as a chunk; a buffer discarded under MIN carries nothing into the next
\* buffer, and every overlap is trailing text of the chunk emitted just before.
C18_OverlapOnlyFromEmitted ==
  \A i \in 1..Len(seeds) :
    seeds[i].overlap # <<>> => (seeds[i].emitted /\ FromFlushedBuffer(seeds[i]))

\* C18 amended: overlap text is taken from the buffer that was just flushed,
\* whether that buffer was emitted as a chunk or discarded under MIN: every
\* overlap is made of the trailing words of that buffer, and after an emitted
\* flush of the trailing words of the chunk emitted just before.
C18_OverlapFromFlushedBuffer ==
  \A i \in 1..Len(seeds) :
    /\ FromFlushedBuffer(seeds[i])
    /\ seeds[i].buffer # <<>>
    /\ seeds[i].emitted =>
         \E k \in 1..Len(chunks) :
           /\ chunks[k].text = Join(seeds[i].buffer)
           /\ IsSuffix(Words(seeds[i].overlap), Words(chunks[k].text))

\* a buffer of two units or more was discarded under MIN and some of its
\* text was carried into the next buffer
C18_Witness ==
  /\ pc = "returned"
  /\ thresholds = DefaultThresholds
  /\ \E i \in 1..Len(seeds) :
       /\ ~seeds[i].emitted
       /\ seeds[i].overlap # <<>>
       /\ Len(seeds[i].buffer) >= 2

\* the objects held by the vector stores, each with the store that holds it
Stored ==
  UNION { { <<i, o>> : o \in vector_stores[i] } : i \in 1..Len(vector_stores) }

StoredOf(slug) == { p \in Stored : p[2].article_slug = slug }

\* the chunks of the version of slug that this run scraped
LatestChunks(slug) ==
  CreateChunks(articles_dir[slug], slug, scraped_articles[slug].source_url)

\* C15: after a run has uploaded again, in full, an article it detected as
\* updated, the stored objects of that article are exactly the chunks of the
\* latest upload, at most one per (article_slug, chunk_index).
C15_ReuploadReplacesChunks ==
  main_pc = "done" =>
    \A n \in 1..Len(updated_slugs) :
      LET slug == updated_slugs[n]
          latest == LatestChunks(slug)
      IN (slug \in DOMAIN chunk_counts /\ chunk_counts[slug] = Len(latest)) =>
           /\ { p[2] : p \in StoredOf(slug) } =
                { Object(latest[k]) : k \in 1..Len(latest) }
           /\ \A p, q \in StoredOf(slug) :
                p[2].chunk_index = q[2].chunk_index => p = q

Range(f) == { f[x] : x \in DOMAIN f }

\* C16: detect_changes puts every scraped slug in exactly one of three
\* lists: new iff the index (as the run found it) has no entry for it,
\* updated iff it has an entry with another hash, unchanged iff the hashes
\* are equal; the articles to upload are the new and the updated ones, and a
\* run that completes has chunked and uploaded exactly those.
C16_DetectPartition ==
  main_pc \in {"detected", "done"} =>
    LET new == Range(new_slugs)
        updated == Range(updated_slugs)
        unchanged == Range(unchanged_slugs)
        old == prev.index
    IN /\ new \cup updated \cup unchanged = DOMAIN scraped_articles
       /\ Len(new_slugs) + Len(updated_slugs) + Len(unchanged_slugs)
            = Cardinality(DOMAIN scraped_articles)
       /\ new \cap updated = {} /\ new \cap unchanged = {}
       /\ updated \cap unchanged = {}
       /\ \A s \in DOMAIN scraped_articles :
            /\ s \in new <=> s \notin DOMAIN old
            /\ s \in updated <=>
                 (s \in DOMAIN old /\ old[s].hash # scraped_articles[s].hash)
            /\ s \in unchanged <=>
                 (s \in DOMAIN old /\ old[s].hash = scraped_articles[s].hash)
       /\ Range(articles_to_upload) = new \cup updated
       /\ Len(articles_to_upload) = Len(new_slugs) + Len(updated_slugs)
       /\ main_pc = "done" => DOMAIN chunk_counts = new \cup updated

\* a completed run that found one article new, one updated, and a completed
\* run before it
C16_Witness ==
  /\ main_pc = "done"
  /\ prev.ok
  /\ Len(new_slugs) = 1
  /\ Len(updated_slugs) = 1

\* a completed run that found an article unchanged
C16_WitnessUnchanged ==
  /\ main_pc = "done"
  /\ unchanged_slugs # <<>>

\* this run scraped the articles of the run before it, with the same content
SameAsBefore ==
  /\ DOMAIN scraped_articles = DOMAIN prev.scraped
  /\ \A s \in DOMAIN scraped_articles :
       scraped_articles[s].hash = prev.scraped[s].hash

\* C19: during a run the index file stays as the run found it until the
\* upload loop is over (scrape_articles does not write it, main writes it
\* last); and a run that scrapes the same articles with the same content as
\* the completed run before it finds every article unchanged and uploads
\* nothing.
C19_IdempotentOnUnchanged ==
  /\ main_pc \in {"scraped", "detected", "failed"} => index = prev.index
  /\ (main_pc \in {"detected", "done"} /\ prev.ok /\ SameAsBefore) =>
       /\ new_slugs = <<>>
       /\ updated_slugs = <<>>
       /\ unchanged_slugs = Keys(scraped_articles)
       /\ articles_to_upload = <<>>
       /\ chunk_counts = Empty
       /\ vector_store_id = 0
       /\ main_pc = "done" => index = prev.index

\* a completed run over the same two articles as the completed run before it,
\* which had uploaded them
C19_Witness ==
  /\ main_pc = "done"
  /\ prev.ok
  /\ SameAsBefore
  /\ Cardinality(DOMAIN scraped_articles) = 2
  /\ vector_stores # <<>>

\* every chunk of the version of slug whose hash is h is held by a vector store
AllChunksStored(slug, h) ==
  \A v \in Versions(slug) :
    _compute_hash(Text(v)) = h =>
      LET cs == CreateChunks(v, slug, UrlOf(slug))
      IN \A k \in 1..Len(cs) : \E p \in Stored : p[2] = Object(cs[k])

\* C20: between runs, every article whose hash is recorded in the index has
\* had all chunks of that version stored; an article with a failed chunk
\* upload is not recorded.
C20_IndexedMeansStored ==
  main_pc \in {"idle", "done", "failed"} =>
    \A s \in DOMAIN index : AllChunksStored(s, index[s].hash)

\* C23: for every emitted chunk the tokens field equals the token count of
\* the chunk's text, whether the buffer grew by appending units (running sum)
\* or was re-seeded with overlap after a flush (recount of the joined text).
C23_TokensMatchText ==
  \A k \in 1..Len(chunks) : chunks[k].tokens = CountTokens(chunks[k].text)

\* a text with every line ending ("\r\n", "\r" or "\n") written as nl
RECURSIVE Restyle(_, _)
Restyle(text, nl) ==
  IF text = <<>> THEN text
  ELSE IF Len(text) >= 2 /\ text[1] = CR /\ text[2] = LF
       THEN nl \o Restyle(SubSeq(text, 3, Len(text)), nl)
  ELSE IF text[1] \in {LF, CR} THEN nl \o Restyle(Tail(text), nl)
  ELSE <<text[1]>> \o Restyle(Tail(text), nl)

Styles == { <<LF>>, <<CR, LF>>, <<CR>> }

\* the text with one more "\n" at position i
LongerRun(text, i) == SubSeq(text, 1, i) \o <<LF>> \o SubSeq(text, i + 1, Len(text))

\* normalizing twice equals normalizing once
C22_Idempotent ==
  norm_pc = "returned" => _normalize_markdown(norm_result) = norm_result

\* texts that differ only in line-ending style get the same hash
C22_LineEndingStyle ==
  norm_pc = "returned" =>
    \A nl \in Styles :
      _compute_hash(Restyle(norm_text, nl)) = _compute_hash(norm_text)

\* texts that differ only in the length of a run of blank lines get the same
\* hash
C22_BlankRuns ==
  norm_pc = "returned" =>
    \A i \in 1..(Len(norm_text) - 1) :
      norm_text[i] = LF /\ norm_text[i + 1] = LF =>
        _compute_hash(LongerRun(norm_text, i)) = _compute_hash(norm_text)

\* texts that differ only in leading or trailing white space get the same hash
C22_OuterWhitespace ==
  norm_pc = "returned" =>
    \A ws \in Styles :
      /\ _compute_hash(ws \o norm_text) = _compute_hash(norm_text)
      /\ _compute_hash(norm_text \o ws) = _compute_hash(norm_text)

\* C22: _normalize_markdown is a canonical form: it is idempotent, and two
\* texts that differ only in the length of blank-line runs, in line-ending
\* style or in leading/trailing white space normalize to the same string and
\* get the same content hash.
C22_CanonicalForm ==
  /\ C22_Idempotent
  /\ C22_LineEndingStyle
  /\ C22_BlankRuns
  /\ C22_OuterWhitespace

\* the run was aborted by an exception that "except Exception" caught
AbortedByException == main_pc = "failed" /\ exc.type = "Exception"

\* the run has classified its articles
Classified == upload_idx >= 1

\* the run before was aborted by an exception and s is scraped again
ScrapedAgain(s) == prev.aborted /\ Classified /\ s \in DOMAIN scraped_articles

C21_WitnessScrape == AbortedByException /\ exc.msg = "scrape"

C21_WitnessDetect == AbortedByException /\ exc.msg = "index" /\ scraped_articles # Empty

\* an article updated in an aborted run is updated again in the next run
\* (the third run at the earliest: reached with MaxRuns = 3)
C21_WitnessUpdated ==
  /\ prev.aborted
  /\ Classified
  /\ prev.updated_slugs # <<>>
  /\ updated_slugs = prev.updated_slugs

====
